---- MODULE Spec2Model ----
(***************************************************************************)
(* Property editor with an undo/redo command stack (src/main.py).          *)
(*                                                                         *)
(* The state is the PropertyModel (the property records, the suppression   *)
(* flag is_undo_redo, the even/odd row colours), the window background     *)
(* colour of the MainWindow and the QUndoStack (command list and index).   *)
(* Every user-visible operation (a write through PropertyModel.setData,    *)
(* the three colour menu actions, Undo, Redo) is one action: the handlers  *)
(* run to completion on the single UI thread, the signals are delivered    *)
(* by direct connection, so the listener and the command replay run        *)
(* inside the handler that triggered them.                                 *)
(***************************************************************************)
EXTENDS Integers, Sequences, FiniteSets, TLC

VARIABLES
    properties,      \* PropertyModel.properties: row -> [name, value, type]
    is_undo_redo,    \* PropertyModel.is_undo_redo (the suppression flag)
    even_row_color,  \* PropertyModel.even_row_color
    odd_row_color,   \* PropertyModel.odd_row_color
    window_color,    \* MainWindow palette().window().color()
    command_list,    \* QUndoStack: the commands, oldest first
    index,           \* QUndoStack: the cursor, number of applied commands
    last,            \* observation of the last handler run (what it was given,
                     \* what it returned, the signals it emitted, the pushes)
    phase,           \* history: pushes only / then undos only / then redos only
    post_push,       \* history: the store as it was right after the last push
    faults,          \* history: exceptions raised inside a replay so far
    filter_pattern,  \* QSortFilterProxyModel.filterRegularExpression
    row_delegate,    \* QTreeView.itemDelegateForRow: view row -> delegate class
    editor           \* the open cell editor (its widgets' values), if any

vars == <<properties, is_undo_redo, even_row_color, odd_row_color, window_color,
          command_list, index, last, phase, post_push, faults,
          filter_pattern, row_delegate, editor>>

----------------------------------------------------------------------------
(* Bounds of the model *)

\* Commands are recorded while the cursor is below this bound.
MaxCommands == 2

\* Exceptions raised inside a replay (in SpecFault only).
MaxFaults == 1

----------------------------------------------------------------------------
(* Data *)

\* The property list MainWindow.__init__ builds (a selection of its rows, in order).
InitialProperties ==
    <<[name |-> "Name1", value |-> "Process 1", type |-> "string"],
      [name |-> "Name2", value |-> "Process 2", type |-> "string"],
      [name |-> "Color", value |-> "#000000", type |-> "color"]>>

\* Rows are numbered from 0 as in the source.
Rows == 0 .. (Len(InitialProperties) - 1)

InitialRows == [r \in Rows |-> InitialProperties[r + 1]]

\* Values a write may carry.
Values == {"Process 1", "Process 2"}

\* PropertyModel.__init__: both row colours start black.
InitialRowColor == "#000000"

\* The window colour of the default palette.
DefaultWindowColor == "#efefef"

\* QColor() as returned by a cancelled QColorDialog.getColor().
InvalidColor == "invalid"

\* What QColorDialog.getColor() may return.
PickerResults == {"#ff0000", InvalidColor}

\* A picker result taken as a colour whether or not the dialog was cancelled.
isValid_Always(color) == TRUE

\* QColor.isValid
isValid(color) == color # InvalidColor

\* QModelIndex
InvalidIndex == [valid |-> FALSE, row |-> -1, column |-> -1]

columnCount == 2

rowCount(w) == Cardinality(DOMAIN w.properties)

hasIndex(w, row, column) ==
    /\ row >= 0
    /\ row < rowCount(w)
    /\ column >= 0
    /\ column < columnCount

\* PropertyModel.index
ModelIndex(w, row, column) ==
    IF ~hasIndex(w, row, column)
    THEN InvalidIndex
    ELSE [valid |-> TRUE, row |-> row, column |-> column]

----------------------------------------------------------------------------
(* Commands *)

PropertyChangeCommand(idx, old_value, new_value) ==
    [kind |-> "property", index |-> idx, color_type |-> "",
     old_value |-> old_value, new_value |-> new_value]

SetRowColorCommand(color_type, old_color, new_color) ==
    [kind |-> "rowcolor", index |-> InvalidIndex, color_type |-> color_type,
     old_value |-> old_color, new_value |-> new_color]

SetBackgroundColorCommand(old_color, new_color) ==
    [kind |-> "background", index |-> InvalidIndex, color_type |-> "",
     old_value |-> old_color, new_value |-> new_color]

----------------------------------------------------------------------------
(* The world a handler runs in: the state plus the log of what it emits *)

World ==
    [properties |-> properties,
     is_undo_redo |-> is_undo_redo,
     even_row_color |-> even_row_color,
     odd_row_color |-> odd_row_color,
     window_color |-> window_color,
     command_list |-> command_list,
     index |-> index,
     filter_pattern |-> filter_pattern,
     row_delegate |-> row_delegate,
     fault |-> FALSE,          \* the next setData call of a replay raises
     notified |-> 0,           \* dataChanged emissions
     forwarded |-> <<>>,       \* afterDataChanged emissions (index, old, new)
     pushed |-> <<>>,          \* commands given to QUndoStack.push
     discarded |-> 0,          \* commands deleted by QUndoStack.push
     applied |-> 0,            \* command effects run (QUndoCommand.redo / undo)
     replay |-> <<>>]          \* outcome of each replayed setData call

Store(w) ==
    [properties |-> w.properties,
     even_row_color |-> w.even_row_color,
     odd_row_color |-> w.odd_row_color,
     window_color |-> w.window_color]

InitialStore ==
    [properties |-> InitialRows,
     even_row_color |-> InitialRowColor,
     odd_row_color |-> InitialRowColor,
     window_color |-> DefaultWindowColor]

----------------------------------------------------------------------------
(* QSortFilterProxyModel over the PropertyModel, and the view's delegates *)

\* QRegularExpression match of a literal pattern against the name column:
\* the pattern occurs somewhere in the text; the empty pattern matches all.
hasMatch(pattern, text) ==
    \/ Len(pattern) = 0
    \/ \E i \in 1 .. (Len(text) - Len(pattern) + 1) :
          SubSeq(text, i, i + Len(pattern) - 1) = pattern

\* QSortFilterProxyModel.filterAcceptsRow (filter key column 0, the name).
filterAcceptsRow(w, source_row) ==
    hasMatch(w.filter_pattern, w.properties[source_row].name)

AcceptedRows(w) == {r \in DOMAIN w.properties : filterAcceptsRow(w, r)}

\* proxy_model.rowCount()
proxyRowCount(w) == Cardinality(AcceptedRows(w))

\* proxy_model.mapToSource: the accepted rows keep the source order.
mapToSource(w, proxy_row) ==
    IF proxy_row >= 0 /\ proxy_row < proxyRowCount(w)
    THEN CHOOSE r \in AcceptedRows(w) :
             Cardinality({q \in AcceptedRows(w) : q < r}) = proxy_row
    ELSE -1

\* proxy_model.mapFromSource
mapFromSource(w, source_row) ==
    IF source_row \in AcceptedRows(w)
    THEN Cardinality({q \in AcceptedRows(w) : q < source_row})
    ELSE -1

\* PropertyEditor.delegates: the registry from type tag to delegate.
delegates ==
    "string" :> "StringDelegate" @@ "color" :> "ColorDelegate" @@
    "bool" :> "BoolDelegate" @@ "int" :> "IntDelegate" @@
    "float" :> "FloatDelegate" @@ "date" :> "DateDelegate" @@
    "datetime" :> "DateTimeDelegate" @@ "time" :> "TimeDelegate" @@
    "file" :> "FileDelegate" @@ "font" :> "FontDelegate" @@
    "icon" :> "IconDelegate" @@ "cursor" :> "CursorDelegate" @@
    "url" :> "UrlDelegate" @@ "keysequence" :> "KeySequenceDelegate" @@
    "palette" :> "PaletteDelegate" @@ "ByteArray" :> "ByteArrayDelegate" @@
    "Pixmap" :> "PixmapDelegate" @@ "Stringlist" :> "StringListDelegate" @@
    "vec2" :> "Vec2Delegate" @@ "vec2f" :> "Vec2fDelegate" @@
    "vec3" :> "Vec3Delegate" @@ "vec3f" :> "Vec3fDelegate" @@
    "vec4" :> "Vec4Delegate" @@ "vec4f" :> "Vec4fDelegate"

\* The delegate a view row has before any is set for it.
DefaultDelegate == "QStyledItemDelegate"

\* self.delegates.get(property_type, StringDelegate())
delegates_get(property_type) ==
    IF property_type \in DOMAIN delegates
    THEN delegates[property_type]
    ELSE "StringDelegate"

\* PropertyModel.getPropertyType
getPropertyType(w, source_row) == w.properties[source_row].type

\* setModel that looks the type up at the view row instead of the source row.
setModel_NoMapToSource(w) ==
    [w EXCEPT !.row_delegate =
         [row \in DOMAIN @ |->
              IF row < proxyRowCount(w)
              THEN delegates_get(getPropertyType(w, row))
              ELSE @[row]]]

\* PropertyEditor.setModel: one delegate per row of the proxy model; the rows
\* past proxy_model.rowCount() keep the delegate they had.
setModel(w) ==
    [w EXCEPT !.row_delegate =
         [row \in DOMAIN @ |->
              IF row < proxyRowCount(w)
              THEN delegates_get(getPropertyType(w, mapToSource(w, row)))
              ELSE @[row]]]

\* setFilter that also clears the undo stack.
setFilter_ClearsUndoStack(w, filter_pattern_) ==
    [setModel([w EXCEPT !.filter_pattern = filter_pattern_])
         EXCEPT !.command_list = <<>>, !.index = 0]

\* PropertyEditor.setFilter
setFilter(w, filter_pattern_) ==
    setModel([w EXCEPT !.filter_pattern = filter_pattern_])

\* The delegates PropertyEditor.__init__ leaves on the rows of a property list.
ConstructedDelegates(rows) ==
    setModel([properties |-> rows, filter_pattern |-> <<>>,
              row_delegate |-> [r \in DOMAIN rows |-> DefaultDelegate]]).row_delegate

\* No cell editor is open.
NoEditor ==
    [open |-> FALSE, row |-> -1, delegate |-> "", values |-> <<>>,
     failed |-> FALSE]

----------------------------------------------------------------------------
(* The vector delegates *)

\* One component of a vector text, as value.split(",") yields it: the number in
\* hundredths, the count of decimals written ("1" has 0, "1.0" has 1, "1.25"
\* has 2) and the blanks around it.
Token(num, decimals, pad) == [num |-> num, decimals |-> decimals, pad |-> pad]

\* int(s): blanks around the digits are accepted, a decimal point is not.
int(token) ==
    IF token.decimals = 0
    THEN [ok |-> TRUE, num |-> token.num]
    ELSE [ok |-> FALSE, num |-> 0]

\* float(s): accepts digits with or without a decimal point.
float(token) == [ok |-> TRUE, num |-> token.num]

\* Default range of QSpinBox and QDoubleSpinBox, in hundredths.
QSpinBox_maximum == 9900

QDoubleSpinBox_maximum == 9999

Clamp(num, maximum) == IF num < 0 THEN 0 ELSE IF num > maximum THEN maximum ELSE num

\* QSpinBox.setValue / QDoubleSpinBox.setValue: the value is bound to the range.
setValue(spin, num) ==
    IF spin = "QSpinBox"
    THEN Clamp(num, QSpinBox_maximum)
    ELSE Clamp(num, QDoubleSpinBox_maximum)

\* A float written like "%g" would write it: no decimals for a whole number.
format_value_Trimmed(spin, num) ==
    IF spin = "QSpinBox" \/ num % 100 = 0
    THEN Token(num, 0, "")
    ELSE Token(num, IF num % 10 = 0 THEN 1 ELSE 2, "")

\* f"{edit.value()}": QSpinBox.value() is an int and is written without
\* decimals, QDoubleSpinBox.value() is a float and is written with the fewest
\* decimals that give the value back, at least one.
format_value(spin, num) ==
    IF spin = "QSpinBox"
    THEN Token(num, 0, "")
    ELSE Token(num, IF num % 10 = 0 THEN 1 ELSE 2, "")

\* The vector delegate classes: the number of spin boxes, the kind of spin
\* box createEditor builds and the conversion setEditorData applies.
Vec2Delegate == [n |-> 2, spin |-> "QSpinBox", parse |-> "int"]

Vec2fDelegate == [n |-> 2, spin |-> "QDoubleSpinBox", parse |-> "float"]

Vec3Delegate == [n |-> 3, spin |-> "QDoubleSpinBox", parse |-> "int"]

Vec3fDelegate == [n |-> 3, spin |-> "QDoubleSpinBox", parse |-> "float"]

Vec4Delegate == [n |-> 4, spin |-> "QDoubleSpinBox", parse |-> "int"]

Vec4fDelegate == [n |-> 4, spin |-> "QDoubleSpinBox", parse |-> "float"]

VecDelegate ==
    "Vec2Delegate" :> Vec2Delegate @@ "Vec2fDelegate" :> Vec2fDelegate @@
    "Vec3Delegate" :> Vec3Delegate @@ "Vec3fDelegate" :> Vec3fDelegate @@
    "Vec4Delegate" :> Vec4Delegate @@ "Vec4fDelegate" :> Vec4fDelegate

\* createEditor: the spin boxes start at 0.
createEditor(d) == [i \in 1 .. d.n |-> 0]

\* setEditorData: every component is converted and the result is unpacked
\* into d.n names before any spin box is set; a ValueError of either step
\* leaves the spin boxes as they were.
setEditorData(d, values, text) ==
    LET parsed == [i \in DOMAIN text |->
                      IF d.parse = "int" THEN int(text[i]) ELSE float(text[i])]
        raised == (\E i \in DOMAIN text : ~parsed[i].ok) \/ Len(text) # d.n
    IN  [raised |-> raised,
         values |-> IF raised
                    THEN values
                    ELSE [i \in 1 .. d.n |-> setValue(d.spin, parsed[i].num)]]

\* setModelData: the text given to model.setData.
setModelData(d, values) == [i \in 1 .. d.n |-> format_value(d.spin, values[i])]

----------------------------------------------------------------------------
(* PropertyModel *)

RECURSIVE QUndoStack_push(_, _)

\* A listener that records the row position shown in the view instead of the
\* position of the record in the store.
afterDataChanged_ProxyIndex(w, idx, old_value, new_value) ==
    QUndoStack_push(w, PropertyChangeCommand(
                           [idx EXCEPT !.row = mapFromSource(w, idx.row)],
                           old_value, new_value))

\* MainWindow.afterDataChanged: the undo-recording listener.
afterDataChanged(w, idx, old_value, new_value) ==
    QUndoStack_push(w, PropertyChangeCommand(idx, old_value, new_value))

\* setData that writes whatever column the index names.
setData_AnyColumn(w, idx, value) ==
    IF idx.valid
    THEN IF w.fault
         THEN [w |-> [w EXCEPT !.fault = FALSE], ret |-> FALSE, raised |-> TRUE]
         ELSE LET old_value == w.properties[idx.row].value IN
              IF old_value # value
              THEN LET w1 == [w EXCEPT !.properties[idx.row].value = value,
                                       !.notified = @ + 1]
                   IN  [w |-> IF ~w1.is_undo_redo
                              THEN afterDataChanged(
                                       [w1 EXCEPT !.forwarded =
                                            Append(@, <<idx, old_value, value>>)],
                                       idx, old_value, value)
                              ELSE w1,
                        ret |-> TRUE, raised |-> FALSE]
              ELSE [w |-> w, ret |-> FALSE, raised |-> FALSE]
    ELSE [w |-> w, ret |-> FALSE, raised |-> FALSE]

\* setData without the comparison of the old and the new value.
setData_NoCompare(w, idx, value) ==
    IF idx.valid
    THEN IF w.fault
         THEN [w |-> [w EXCEPT !.fault = FALSE], ret |-> FALSE, raised |-> TRUE]
         ELSE IF idx.column = 1
              THEN LET old_value == w.properties[idx.row].value
                       w1 == [w EXCEPT !.properties[idx.row].value = value,
                                       !.notified = @ + 1]
                   IN  [w |-> IF ~w1.is_undo_redo
                              THEN afterDataChanged(
                                       [w1 EXCEPT !.forwarded =
                                            Append(@, <<idx, old_value, value>>)],
                                       idx, old_value, value)
                              ELSE w1,
                        ret |-> TRUE, raised |-> FALSE]
              ELSE [w |-> w, ret |-> FALSE, raised |-> FALSE]
    ELSE [w |-> w, ret |-> FALSE, raised |-> FALSE]

\* PropertyModel.setData(index, value, Qt.EditRole). The result is the world
\* after the call, the value returned and whether the call raised.
setData(w, idx, value) ==
    IF idx.valid
    THEN IF w.fault
         THEN [w |-> [w EXCEPT !.fault = FALSE], ret |-> FALSE, raised |-> TRUE]
         ELSE IF idx.column = 1
              THEN LET old_value == w.properties[idx.row].value IN
                   IF old_value # value
                   THEN LET w1 == [w EXCEPT !.properties[idx.row].value = value,
                                            !.notified = @ + 1]
                        IN  [w |-> IF ~w1.is_undo_redo
                                   THEN afterDataChanged(
                                            [w1 EXCEPT !.forwarded =
                                                 Append(@, <<idx, old_value, value>>)],
                                            idx, old_value, value)
                                   ELSE w1,
                             ret |-> TRUE, raised |-> FALSE]
                   ELSE [w |-> w, ret |-> FALSE, raised |-> FALSE]
              ELSE [w |-> w, ret |-> FALSE, raised |-> FALSE]
    ELSE [w |-> w, ret |-> FALSE, raised |-> FALSE]

\* undo_redo_context that never sets the flag.
undo_redo_context_enter_NoFlag(w) == w

\* PropertyModel.undo_redo_context, entering the with block.
undo_redo_context_enter(w) == [w EXCEPT !.is_undo_redo = TRUE]

\* undo_redo_context without try/finally: the reset is skipped when the body raises.
undo_redo_context_exit_NoFinally(w, raised) ==
    IF raised THEN w ELSE [w EXCEPT !.is_undo_redo = FALSE]

\* PropertyModel.undo_redo_context, leaving the with block (the finally clause
\* runs whether the body returned or raised).
undo_redo_context_exit(w, raised) == [w EXCEPT !.is_undo_redo = FALSE]

\* PropertyModel.setEvenRowColor
setEvenRowColor(w, color) ==
    [w EXCEPT !.even_row_color = color, !.notified = @ + 1]

\* PropertyModel.setOddRowColor
setOddRowColor(w, color) ==
    [w EXCEPT !.odd_row_color = color, !.notified = @ + 1]

\* MainWindow.applyBackgroundColor
applyBackgroundColor(w, color) == [w EXCEPT !.window_color = color]

----------------------------------------------------------------------------
(* The commands' effects *)

\* The with block of PropertyChangeCommand.redo / undo around setData.
ReplaySetData(w, idx, value) ==
    LET w1 == undo_redo_context_enter(w)
        r == setData(w1, idx, value)
        outcome == IF r.raised THEN "raised" ELSE IF r.ret THEN "true" ELSE "false"
        w2 == [r.w EXCEPT !.replay = Append(@, outcome)]
    IN  undo_redo_context_exit(w2, r.raised)

PropertyChangeCommand_redo(w, cmd) == ReplaySetData(w, cmd.index, cmd.new_value)

\* undo that replays the new value.
PropertyChangeCommand_undo_NewValue(w, cmd) ==
    ReplaySetData(w, cmd.index, cmd.new_value)

PropertyChangeCommand_undo(w, cmd) == ReplaySetData(w, cmd.index, cmd.old_value)

SetRowColorCommand_redo(w, cmd) ==
    IF cmd.color_type = "even"
    THEN setEvenRowColor(w, cmd.new_value)
    ELSE IF cmd.color_type = "odd"
         THEN setOddRowColor(w, cmd.new_value)
         ELSE w

\* undo whose odd branch restores the even colour.
SetRowColorCommand_undo_WrongRow(w, cmd) ==
    IF cmd.color_type = "even"
    THEN setEvenRowColor(w, cmd.old_value)
    ELSE IF cmd.color_type = "odd"
         THEN setEvenRowColor(w, cmd.old_value)
         ELSE w

SetRowColorCommand_undo(w, cmd) ==
    IF cmd.color_type = "even"
    THEN setEvenRowColor(w, cmd.old_value)
    ELSE IF cmd.color_type = "odd"
         THEN setOddRowColor(w, cmd.old_value)
         ELSE w

SetBackgroundColorCommand_redo(w, cmd) == applyBackgroundColor(w, cmd.new_value)

\* undo that applies the new colour again.
SetBackgroundColorCommand_undo_NewColor(w, cmd) ==
    applyBackgroundColor(w, cmd.new_value)

SetBackgroundColorCommand_undo(w, cmd) == applyBackgroundColor(w, cmd.old_value)

\* QUndoCommand.redo, dispatched on the command's class.
QUndoCommand_redo(w, cmd) ==
    LET w1 == [w EXCEPT !.applied = @ + 1]
    IN  CASE cmd.kind = "property" -> PropertyChangeCommand_redo(w1, cmd)
          [] cmd.kind = "rowcolor" -> SetRowColorCommand_redo(w1, cmd)
          [] cmd.kind = "background" -> SetBackgroundColorCommand_redo(w1, cmd)

\* QUndoCommand.undo, dispatched on the command's class.
QUndoCommand_undo(w, cmd) ==
    LET w1 == [w EXCEPT !.applied = @ + 1]
    IN  CASE cmd.kind = "property" -> PropertyChangeCommand_undo(w1, cmd)
          [] cmd.kind = "rowcolor" -> SetRowColorCommand_undo(w1, cmd)
          [] cmd.kind = "background" -> SetBackgroundColorCommand_undo(w1, cmd)

----------------------------------------------------------------------------
(* QUndoStack *)

\* push that appends without dropping the undone commands.
QUndoStack_truncate_Keep(w) == w

\* The part of push that deletes the commands at and after the cursor.
QUndoStack_truncate(w) ==
    [w EXCEPT !.command_list = SubSeq(@, 1, w.index),
              !.discarded = @ + (Len(w.command_list) - w.index)]

\* QUndoStack.push: run the command's redo, drop the redo tail, append, advance.
QUndoStack_push(w, cmd) ==
    LET w1 == QUndoCommand_redo([w EXCEPT !.pushed = Append(@, cmd)], cmd)
        w2 == QUndoStack_truncate(w1)
    IN  [w2 EXCEPT !.command_list = Append(@, cmd), !.index = @ + 1]

\* undo that guards with index < 0 and lets the list index wrap to the last command.
QUndoStack_undo_WrapAround(w) ==
    IF w.index < 0 \/ Len(w.command_list) = 0
    THEN w
    ELSE LET idx == w.index - 1
             cmd == w.command_list[IF idx < 0 THEN Len(w.command_list) ELSE idx + 1]
             w1 == QUndoCommand_undo(w, cmd)
         IN  [w1 EXCEPT !.index = idx]

\* QUndoStack.undo
QUndoStack_undo(w) ==
    IF w.index = 0
    THEN w
    ELSE LET idx == w.index - 1
             cmd == w.command_list[idx + 1]
             w1 == QUndoCommand_undo(w, cmd)
         IN  [w1 EXCEPT !.index = idx]

\* redo whose end check guards the replay but not the advance of the cursor.
QUndoStack_redo_NoEndCheck(w) ==
    IF w.index = Len(w.command_list)
    THEN [w EXCEPT !.index = @ + 1]
    ELSE LET cmd == w.command_list[w.index + 1]
             w1 == QUndoCommand_redo(w, cmd)
         IN  [w1 EXCEPT !.index = w.index + 1]

\* QUndoStack.redo
QUndoStack_redo(w) ==
    IF w.index = Len(w.command_list)
    THEN w
    ELSE LET cmd == w.command_list[w.index + 1]
             w1 == QUndoCommand_redo(w, cmd)
         IN  [w1 EXCEPT !.index = w.index + 1]

----------------------------------------------------------------------------
(* The handlers as actions *)

Observation(op, idx, ret, w) ==
    [op |-> op, valid |-> idx.valid, column |-> idx.column, ret |-> ret,
     notified |-> w.notified, forwarded |-> w.forwarded, pushed |-> w.pushed,
     discarded |-> w.discarded, applied |-> w.applied, replay |-> w.replay]

\* History of the round trip: "pushing" while only commands were pushed since
\* the start, "undoing" while only undos followed them, "redoing" while only
\* redos followed the undo of all of them, "other" afterwards.
NextPhase(op, w) ==
    IF Len(w.pushed) > 0
    THEN IF phase = "pushing" THEN "pushing" ELSE "other"
    ELSE IF op = "undo" /\ index > 0
         THEN IF phase \in {"pushing", "undoing"} THEN "undoing" ELSE "other"
         ELSE IF op = "redo" /\ index < Len(command_list)
              THEN IF (phase = "undoing" /\ index = 0) \/ phase = "redoing"
                   THEN "redoing"
                   ELSE "other"
              ELSE phase

\* Everything but the open cell editor.
model_vars ==
    <<properties, is_undo_redo, even_row_color, odd_row_color, window_color,
      command_list, index, last, phase, post_push, faults, filter_pattern,
      row_delegate>>

\* The model, the stack and the view after a handler that ran in world w.
CommitModel(w, obs) ==
    /\ properties' = w.properties
    /\ is_undo_redo' = w.is_undo_redo
    /\ even_row_color' = w.even_row_color
    /\ odd_row_color' = w.odd_row_color
    /\ window_color' = w.window_color
    /\ command_list' = w.command_list
    /\ index' = w.index
    /\ last' = obs
    /\ phase' = NextPhase(obs.op, w)
    /\ post_push' = IF Len(w.pushed) > 0 THEN Store(w) ELSE post_push
    /\ faults' = faults + Cardinality({i \in DOMAIN w.replay : w.replay[i] = "raised"})
    /\ filter_pattern' = w.filter_pattern
    /\ row_delegate' = w.row_delegate

\* The state after a handler that ran in world w and touched no cell editor.
Commit(w, obs) ==
    /\ CommitModel(w, obs)
    /\ editor' = editor

\* A write to the store: PropertyModel.setData(self.index(row, column), value).
SetData(row, column, value) ==
    /\ index < MaxCommands
    /\ LET r == setData(World, ModelIndex(World, row, column), value)
       IN  Commit(r.w, Observation("setData", ModelIndex(World, row, column), r.ret, r.w))

\* MainWindow.setEvenRowColor: the menu action, color is what the picker returns.
MainWindow_setEvenRowColor(color) ==
    /\ index < MaxCommands
    /\ LET w == IF isValid(color)
                THEN QUndoStack_push(World,
                         SetRowColorCommand("even", even_row_color, color))
                ELSE World
       IN  Commit(w, Observation("setEvenRowColor", InvalidIndex, FALSE, w))

\* MainWindow.setOddRowColor
MainWindow_setOddRowColor(color) ==
    /\ index < MaxCommands
    /\ LET w == IF isValid(color)
                THEN QUndoStack_push(World,
                         SetRowColorCommand("odd", odd_row_color, color))
                ELSE World
       IN  Commit(w, Observation("setOddRowColor", InvalidIndex, FALSE, w))

\* MainWindow.setBackgroundColor
MainWindow_setBackgroundColor(color) ==
    /\ index < MaxCommands
    /\ LET w == IF isValid(color)
                THEN QUndoStack_push(World,
                         SetBackgroundColorCommand(window_color, color))
                ELSE World
       IN  Commit(w, Observation("setBackgroundColor", InvalidIndex, FALSE, w))

\* The Undo action of the Edit menu and the toolbar.
Undo ==
    LET w == QUndoStack_undo(World)
    IN  Commit(w, Observation("undo", InvalidIndex, FALSE, w))

\* The Redo action of the Edit menu and the toolbar.
Redo ==
    LET w == QUndoStack_redo(World)
    IN  Commit(w, Observation("redo", InvalidIndex, FALSE, w))

\* Undo of a property change whose call into setData raises.
UndoRaises ==
    /\ faults < MaxFaults
    /\ index > 0
    /\ command_list[index].kind = "property"
    /\ LET w == QUndoStack_undo([World EXCEPT !.fault = TRUE])
       IN  Commit(w, Observation("undo", InvalidIndex, FALSE, w))

\* Redo of a property change whose call into setData raises.
RedoRaises ==
    /\ faults < MaxFaults
    /\ index < Len(command_list)
    /\ command_list[index + 1].kind = "property"
    /\ LET w == QUndoStack_redo([World EXCEPT !.fault = TRUE])
       IN  Commit(w, Observation("redo", InvalidIndex, FALSE, w))

\* QSortFilterProxyModel.setData: the write is passed to the source model at
\* the source index of the view cell.
QSortFilterProxyModel_setData(w, proxy_row, column, value) ==
    setData(w, ModelIndex(w, mapToSource(w, proxy_row), column), value)

\* MainWindow.setFilter: the filter line edit's text changed.
SetFilter(pattern) ==
    LET w == setFilter(World, pattern)
    IN  Commit(w, Observation("setFilter", InvalidIndex, FALSE, w))

\* The user commits a text in the value cell of a visible row: the row's
\* delegate calls model.setData(index, text) on the proxy model.
EditCell(proxy_row, value) ==
    /\ index < MaxCommands
    /\ proxy_row < proxyRowCount(World)
    /\ LET r == QSortFilterProxyModel_setData(World, proxy_row, 1, value)
       IN  Commit(r.w, Observation("editCell",
                                   ModelIndex(World, mapToSource(World, proxy_row), 1),
                                   r.ret, r.w))

\* Double click on the value cell of a shown row: the row's delegate builds
\* the editor and loads the stored text into it. An exception raised by
\* setEditorData is printed and the editor stays open.
OpenEditor(row) ==
    /\ ~editor.open
    /\ row < proxyRowCount(World)
    /\ row_delegate[row] \in DOMAIN VecDelegate
    /\ LET d == VecDelegate[row_delegate[row]]
           idx == ModelIndex(World, mapToSource(World, row), 1)
           r == setEditorData(d, createEditor(d), properties[idx.row].value)
       IN  /\ editor' = [open |-> TRUE, row |-> row, delegate |-> row_delegate[row],
                         values |-> r.values, failed |-> r.raised]
           /\ CommitModel(World, Observation("openEditor", idx, FALSE, World))

\* The user types a value into one spin box of the open editor.
SetComponent(i, num) ==
    /\ editor.open
    /\ i \in DOMAIN editor.values
    /\ editor' = [editor EXCEPT
                     !.values[i] = setValue(VecDelegate[editor.delegate].spin, num)]
    /\ UNCHANGED model_vars

\* Enter or a click elsewhere: the view asks the delegate to write the
\* editor's content to the model and closes the editor.
CommitEditor ==
    /\ editor.open
    /\ index < MaxCommands
    /\ LET d == VecDelegate[editor.delegate]
           r == QSortFilterProxyModel_setData(World, editor.row, 1,
                                              setModelData(d, editor.values))
       IN  /\ editor' = [editor EXCEPT !.open = FALSE]
           /\ CommitModel(r.w, Observation("commitEditor",
                                           ModelIndex(World, mapToSource(World, editor.row), 1),
                                           r.ret, r.w))

\* Escape: the editor is closed and nothing is written.
CancelEditor ==
    /\ editor.open
    /\ editor' = [editor EXCEPT !.open = FALSE]
    /\ UNCHANGED model_vars

Init ==
    /\ properties = InitialRows
    /\ is_undo_redo = FALSE
    /\ even_row_color = InitialRowColor
    /\ odd_row_color = InitialRowColor
    /\ window_color = DefaultWindowColor
    /\ command_list = <<>>
    /\ index = 0
    /\ last = [op |-> "init", valid |-> FALSE, column |-> -1, ret |-> FALSE,
               notified |-> 0, forwarded |-> <<>>, pushed |-> <<>>,
               discarded |-> 0, applied |-> 0, replay |-> <<>>]
    /\ phase = "pushing"
    /\ post_push = InitialStore
    /\ faults = 0
    /\ filter_pattern = <<>>
    /\ row_delegate = ConstructedDelegates(InitialRows)
    /\ editor = NoEditor

Next ==
    \/ \E row \in -1 .. Len(InitialProperties), column \in 0 .. 1, value \in Values :
           SetData(row, column, value)
    \/ \E color \in PickerResults : MainWindow_setEvenRowColor(color)
    \/ \E color \in PickerResults : MainWindow_setOddRowColor(color)
    \/ \E color \in PickerResults : MainWindow_setBackgroundColor(color)
    \/ Undo
    \/ Redo

Spec == Init /\ [][Next]_vars

\* The property store and the undo stack with exceptions raised inside the
\* replay's call into setData (an exception leaving the with block of
\* PropertyChangeCommand.redo / undo). The colour menu actions are left out:
\* their commands neither read nor write the suppression flag.
NextFault ==
    \/ \E row \in -1 .. Len(InitialProperties), column \in 0 .. 1, value \in Values :
           SetData(row, column, value)
    \/ Undo
    \/ Redo
    \/ UndoRaises
    \/ RedoRaises

SpecFault == Init /\ [][NextFault]_vars

----------------------------------------------------------------------------
(* The filtered view *)

\* A property list given to PropertyEditor; the names are spelled out letter
\* by letter for the filter, and the last type tag has no delegate.
ViewProperties ==
    <<[name |-> <<"N", "a", "m", "e", "1">>, value |-> "Process 1", type |-> "string"],
      [name |-> <<"C", "o", "l", "o", "r">>, value |-> "#000000", type |-> "color"],
      [name |-> <<"N", "o", "t", "e">>, value |-> "Process 2", type |-> "memo"]>>

ViewRows == [r \in 0 .. (Len(ViewProperties) - 1) |-> ViewProperties[r + 1]]

\* Texts typed into the filter line edit.
Patterns == {<<>>, <<"N">>, <<"o">>}

InitView ==
    /\ properties = ViewRows
    /\ is_undo_redo = FALSE
    /\ even_row_color = InitialRowColor
    /\ odd_row_color = InitialRowColor
    /\ window_color = DefaultWindowColor
    /\ command_list = <<>>
    /\ index = 0
    /\ last = [op |-> "init", valid |-> FALSE, column |-> -1, ret |-> FALSE,
               notified |-> 0, forwarded |-> <<>>, pushed |-> <<>>,
               discarded |-> 0, applied |-> 0, replay |-> <<>>]
    /\ phase = "pushing"
    /\ post_push = [InitialStore EXCEPT !.properties = ViewRows]
    /\ faults = 0
    /\ filter_pattern = <<>>
    /\ row_delegate = ConstructedDelegates(ViewRows)
    /\ editor = NoEditor

NextView ==
    \/ \E pattern \in Patterns : SetFilter(pattern)
    \/ \E proxy_row \in 0 .. (Len(ViewProperties) - 1), value \in Values :
           EditCell(proxy_row, value)
    \/ Undo
    \/ Redo

SpecView == InitView /\ [][NextView]_vars

----------------------------------------------------------------------------
(* Editing the vector rows *)

\* The vector rows of MainWindow's property list.
VecProperties ==
    <<[name |-> "Vec2D", type |-> "vec2",
       value |-> <<Token(100, 0, "right"), Token(200, 0, "left")>>],
      [name |-> "Vec3D", type |-> "vec3",
       value |-> <<Token(100, 0, "right"), Token(200, 0, "right"), Token(300, 0, "")>>],
      [name |-> "Vec3Df", type |-> "vec3f",
       value |-> <<Token(100, 1, ""), Token(200, 1, ""), Token(300, 1, "")>>],
      [name |-> "Vec4D", type |-> "vec4",
       value |-> <<Token(100, 0, "right"), Token(200, 0, "right"),
                   Token(300, 0, "right"), Token(400, 0, "")>>]>>

VecRows == [r \in 0 .. (Len(VecProperties) - 1) |-> VecProperties[r + 1]]

\* What the user types into a spin box, in hundredths: a whole number into a
\* QSpinBox, a number with decimals into a QDoubleSpinBox.
SpinInputs(spin) == IF spin = "QSpinBox" THEN {700} ELSE {250}

\* The spin boxes the user types into.
EditedComponents == {1}

InitVec ==
    /\ properties = VecRows
    /\ is_undo_redo = FALSE
    /\ even_row_color = InitialRowColor
    /\ odd_row_color = InitialRowColor
    /\ window_color = DefaultWindowColor
    /\ command_list = <<>>
    /\ index = 0
    /\ last = [op |-> "init", valid |-> FALSE, column |-> -1, ret |-> FALSE,
               notified |-> 0, forwarded |-> <<>>, pushed |-> <<>>,
               discarded |-> 0, applied |-> 0, replay |-> <<>>]
    /\ phase = "pushing"
    /\ post_push = [InitialStore EXCEPT !.properties = VecRows]
    /\ faults = 0
    /\ filter_pattern = <<>>
    /\ row_delegate = ConstructedDelegates(VecRows)
    /\ editor = NoEditor

NextVec ==
    \/ \E row \in 0 .. (Len(VecProperties) - 1) : OpenEditor(row)
    \/ /\ editor.open
       /\ \E i \in EditedComponents :
             \E num \in SpinInputs(VecDelegate[editor.delegate].spin) :
                SetComponent(i, num)
    \/ CommitEditor
    \/ CancelEditor
    \/ ~editor.open /\ Undo
    \/ ~editor.open /\ Redo

SpecVec == InitVec /\ [][NextVec]_vars

----------------------------------------------------------------------------
(* Properties *)

StoreNow == Store(World)

\* The store with the target of cmd set to value.
WithTarget(store, cmd, value) ==
    CASE cmd.kind = "property" ->
             [store EXCEPT !.properties[cmd.index.row].value = value]
      [] cmd.kind = "rowcolor" /\ cmd.color_type = "even" ->
             [store EXCEPT !.even_row_color = value]
      [] cmd.kind = "rowcolor" /\ cmd.color_type = "odd" ->
             [store EXCEPT !.odd_row_color = value]
      [] cmd.kind = "background" ->
             [store EXCEPT !.window_color = value]

\* C1: after N pushes from the initial state with no undo in between, N undos
\* give back the initial property values, row colours and window colour, and
\* N redos then give back the values held right after the N-th push.
RoundTripLaw ==
    /\ (phase = "undoing" /\ index = 0) => StoreNow = InitialStore
    /\ (phase = "redoing" /\ index = Len(command_list)) => StoreNow = post_push

\* Two commands of different kinds were pushed, all undone, then all redone.
RoundTripWitness ==
    /\ phase = "redoing"
    /\ index = Len(command_list)
    /\ index >= 2
    /\ command_list[1].kind # command_list[2].kind
    /\ post_push # InitialStore

\* C2: a push while index < length discards the commands at and after the
\* cursor, the new command becomes the last one, the cursor equals the length
\* afterwards and a redo then changes nothing.
RedoTailInvalidated ==
    [][(Len(last'.pushed) > 0 /\ index < Len(command_list)) =>
          /\ Len(last'.pushed) = 1
          /\ last'.discarded = Len(command_list) - index
          /\ command_list' = Append(SubSeq(command_list, 1, index), last'.pushed[1])
          /\ index' = Len(command_list')
          /\ Store(QUndoStack_redo(World))' = StoreNow'
          /\ QUndoStack_redo(World)'.index = index'
          /\ QUndoStack_redo(World)'.command_list = command_list']_vars

\* push A, push B, undo, push C: the sequence is [A, C].
RedoTailWitness ==
    /\ last.discarded = 1
    /\ Len(last.pushed) = 1
    /\ Len(command_list) = 2
    /\ index = 2
    /\ command_list[2] = last.pushed[1]

\* C3: undo or redo of a property change leaves the command sequence as it
\* is, moves the cursor by one and forwards no delta to the listener.
ReplayRecordsNothing ==
    [][/\ (Undo /\ index > 0 /\ command_list[index].kind = "property") =>
             /\ command_list' = command_list
             /\ index' = index - 1
             /\ last'.forwarded = <<>>
             /\ last'.pushed = <<>>
       /\ (Redo /\ index < Len(command_list)
                /\ command_list[index + 1].kind = "property") =>
             /\ command_list' = command_list
             /\ index' = index + 1
             /\ last'.forwarded = <<>>
             /\ last'.pushed = <<>>]_vars

\* An undo of a property change has just changed the record.
ReplayWitness ==
    /\ last.op = "undo"
    /\ last.replay = <<"true">>
    /\ last.notified = 1
    /\ index < Len(command_list)
    /\ command_list[index + 1].kind = "property"

\* C4: a write of a different value to a value cell pushes exactly one
\* command (old value, new value), the cursor equals the length afterwards,
\* and the redo run by push neither changes the record again, nor notifies
\* again, nor pushes a second command.
EditRecordedOnce ==
    [][\A row \in Rows, value \in Values :
          (SetData(row, 1, value) /\ value # properties[row].value) =>
             /\ last'.ret = TRUE
             /\ properties' = [properties EXCEPT ![row].value = value]
             /\ last'.pushed =
                    <<PropertyChangeCommand(ModelIndex(World, row, 1),
                                            properties[row].value, value)>>
             /\ command_list' =
                    Append(SubSeq(command_list, 1, index), last'.pushed[1])
             /\ index' = Len(command_list')
             /\ last'.notified = 1
             /\ Len(last'.forwarded) = 1
             /\ last'.applied = 1
             /\ last'.replay = <<"false">>]_vars

\* A second edit has been recorded on top of a first one.
EditRecordedWitness ==
    /\ last.op = "setData"
    /\ last.ret = TRUE
    /\ Len(last.pushed) = 1
    /\ index = 2
    /\ command_list[2] = last.pushed[1]
    /\ properties[command_list[2].index.row].value = command_list[2].new_value

\* C5: a write of the value the record already holds returns false, changes
\* no record, emits no dataChanged, forwards nothing to the listener and
\* leaves the undo stack as it is.
SameValueIsNoOp ==
    [][\A row \in Rows :
          SetData(row, 1, properties[row].value) =>
             /\ last'.ret = FALSE
             /\ last'.notified = 0
             /\ last'.forwarded = <<>>
             /\ last'.pushed = <<>>
             /\ UNCHANGED <<properties, is_undo_redo, even_row_color,
                            odd_row_color, window_color, command_list, index>>]_vars

\* A write to a valid value cell was refused, with an edit recorded before it.
SameValueWitness ==
    /\ last.op = "setData"
    /\ last.valid
    /\ last.column = 1
    /\ last.ret = FALSE
    /\ index > 0
    /\ properties # InitialRows

\* C6: undo at cursor 0 and redo at cursor = length change nothing.
UndoRedoAtEndsNoOp ==
    [][((Undo /\ index = 0) \/ (Redo /\ index = Len(command_list))) =>
          UNCHANGED <<properties, is_undo_redo, even_row_color, odd_row_color,
                      window_color, command_list, index>>]_vars

\* Undo was asked for with every command already undone.
UndoAtZeroWitness ==
    /\ last.op = "undo"
    /\ last.applied = 0
    /\ index = 0
    /\ Len(command_list) > 0

\* C7: the cursor stays within 0 .. length, and the stack starts empty with
\* the cursor at 0.
CursorInRange ==
    /\ index >= 0
    /\ index <= Len(command_list)
    /\ last.op = "init" => (command_list = <<>> /\ index = 0)

\* The cursor is strictly inside the sequence.
CursorInsideWitness ==
    /\ index > 0
    /\ index < Len(command_list)

\* The value the applied prefix gives a row.
AppliedValue(row) ==
    LET S == {i \in 1 .. index :
                 /\ i <= Len(command_list)
                 /\ command_list[i].kind = "property"
                 /\ command_list[i].index.row = row}
    IN  IF S = {}
        THEN InitialRows[row].value
        ELSE command_list[CHOOSE i \in S : \A j \in S : j <= i].new_value

\* C8: every record holds the new value of the last property command below
\* the cursor that targets it, or its initial value if there is none.
StoreReflectsAppliedPrefix ==
    \A row \in Rows : properties[row].value = AppliedValue(row)

\* Two commands on the same record, the first applied, the second undone.
AppliedPrefixWitness ==
    /\ index = 1
    /\ Len(command_list) = 2
    /\ command_list[1].kind = "property"
    /\ command_list[2].kind = "property"
    /\ command_list[1].index.row = command_list[2].index.row
    /\ last.op = "undo"

\* C9: the suppression flag is false whenever no replay is running, also
\* after a replay whose setData returned false or raised; so a write of a
\* different value is always forwarded to the listener and recorded.
SuppressionFlagReset ==
    /\ is_undo_redo = FALSE
    /\ \A row \in Rows, value \in Values :
          value # properties[row].value =>
             LET r == setData(World, ModelIndex(World, row, 1), value)
             IN  /\ r.ret = TRUE
                 /\ Len(r.w.forwarded) = 1
                 /\ Len(r.w.pushed) = 1
                 /\ r.w.command_list[r.w.index] = r.w.pushed[1]

\* A replay's call into setData has just raised.
ReplayRaisedWitness ==
    /\ last.op \in {"undo", "redo"}
    /\ last.replay = <<"raised">>
    /\ faults > 0

\* C10: an effective undo moves the cursor down by one and sets only the
\* target of the command at the new cursor to its old value; an effective
\* redo sets only that target to the new value and moves the cursor up by one.
SingleStepFrame ==
    [][/\ (Undo /\ index > 0) =>
             /\ index' = index - 1
             /\ StoreNow' = WithTarget(StoreNow, command_list[index],
                                       command_list[index].old_value)
       /\ (Redo /\ index < Len(command_list)) =>
             /\ index' = index + 1
             /\ StoreNow' = WithTarget(StoreNow, command_list[index + 1],
                                       command_list[index + 1].new_value)]_vars

\* "Process 1" edited to "Process 2", undone and redone: "Process 2", cursor 1.
SingleStepWitness ==
    /\ last.op = "redo"
    /\ last.applied = 1
    /\ index = 1
    /\ command_list = <<PropertyChangeCommand(ModelIndex(World, 0, 1),
                                              "Process 1", "Process 2")>>
    /\ properties[0].value = "Process 2"
    /\ phase = "redoing"

\* C11: a write to the name column or to a row outside the store returns
\* false without raising, changes no record, emits no dataChanged and pushes
\* no command.
RejectedWritesAreSilent ==
    [][\A row \in -1 .. Len(InitialProperties), column \in 0 .. 1, value \in Values :
          (SetData(row, column, value) /\ (column = 0 \/ row \notin Rows)) =>
             /\ setData(World, ModelIndex(World, row, column), value).raised = FALSE
             /\ last'.ret = FALSE
             /\ last'.notified = 0
             /\ last'.forwarded = <<>>
             /\ last'.pushed = <<>>
             /\ UNCHANGED <<properties, is_undo_redo, even_row_color,
                            odd_row_color, window_color, command_list, index>>]_vars

\* A write to the name column of an existing row was refused after an edit.
NameColumnWriteWitness ==
    /\ last.op = "setData"
    /\ last.valid
    /\ last.column = 0
    /\ last.ret = FALSE
    /\ index > 0

\* C12: a cancelled colour picker changes no colour, no record and nothing
\* of the undo stack; a valid colour pushes exactly one command.
CancelledPickerIsNoOp ==
    [][\A color \in PickerResults :
          (\/ MainWindow_setEvenRowColor(color)
           \/ MainWindow_setOddRowColor(color)
           \/ MainWindow_setBackgroundColor(color)) =>
             IF color = InvalidColor
             THEN /\ last'.pushed = <<>>
                  /\ last'.applied = 0
                  /\ UNCHANGED <<properties, is_undo_redo, even_row_color,
                                 odd_row_color, window_color, command_list, index>>
             ELSE /\ Len(last'.pushed) = 1
                  /\ last'.pushed[1].new_value = color
                  /\ command_list' =
                         Append(SubSeq(command_list, 1, index), last'.pushed[1])
                  /\ index' = Len(command_list')]_vars

\* The background picker was cancelled after a colour had been changed.
CancelledPickerWitness ==
    /\ last.op = "setBackgroundColor"
    /\ last.pushed = <<>>
    /\ last.applied = 0
    /\ index > 0
    /\ \E i \in 1 .. index : command_list[i].kind # "property"

----------------------------------------------------------------------------
(* The filtered view *)

\* The rows shown and the delegate of each shown row.
View(w) ==
    [rows |-> [row \in 0 .. (proxyRowCount(w) - 1) |-> mapToSource(w, row)],
     delegate |-> [row \in 0 .. (proxyRowCount(w) - 1) |-> w.row_delegate[row]]]

\* C16: setFilter(pattern) leaves every property record, the row colours, the
\* window colour, the command list and the cursor unchanged, records and
\* replays nothing, and setting the same pattern a second time gives the same
\* shown rows and the same delegate per shown row as setting it once.
FilterChangesOnlyView ==
    [][\A pattern \in Patterns :
          SetFilter(pattern) =>
             /\ UNCHANGED <<properties, is_undo_redo, even_row_color, odd_row_color,
                            window_color, command_list, index>>
             /\ last'.notified = 0
             /\ last'.pushed = <<>>
             /\ last'.applied = 0
             /\ filter_pattern' = pattern
             /\ LET once == setFilter(World, pattern)
                    twice == setFilter(once, pattern)
                IN  /\ View(once) = View(World)'
                    /\ View(twice) = View(once)
                    /\ twice.row_delegate = once.row_delegate]_vars

\* A filter that hides a record was set while the stack held an applied and an
\* undone command.
FilterAppliedWitness ==
    /\ last.op = "setFilter"
    /\ proxyRowCount(World) < rowCount(World)
    /\ index = 1
    /\ Len(command_list) = 2

\* C17: every shown row has the delegate registered for the type of the record
\* it shows, the record being found through the filter's row mapping, and a
\* record whose type has no registered delegate has the string delegate.
DelegateMatchesType ==
    \A row \in 0 .. (proxyRowCount(World) - 1) :
       LET property_type == properties[mapToSource(World, row)].type
       IN  /\ property_type \in DOMAIN delegates =>
                row_delegate[row] = delegates[property_type]
           /\ property_type \notin DOMAIN delegates =>
                row_delegate[row] = "StringDelegate"

\* The filter shows the colour record at row 0 and the record of unregistered
\* type at row 1; the record at position 0 of the store is hidden.
DispatchWitness ==
    /\ last.op = "setFilter"
    /\ proxyRowCount(World) = 2
    /\ mapToSource(World, 0) = 1
    /\ properties[1].type = "color"
    /\ row_delegate[0] = "ColorDelegate"
    /\ mapToSource(World, 1) = 2
    /\ properties[2].type \notin DOMAIN delegates
    /\ row_delegate[1] = "StringDelegate"

\* C18: an edit at a shown row changes only the record shown there and records
\* a command holding that record's position in the store; undoing or redoing a
\* property command sets the value of the record at the recorded position and
\* of no other record, whatever the filter shows at that time.
ReplayTargetsEditedRecord ==
    [][/\ \A proxy_row \in 0 .. (Len(ViewProperties) - 1), value \in Values :
             EditCell(proxy_row, value) =>
                LET source_row == mapToSource(World, proxy_row)
                IN  /\ \A r \in DOMAIN properties :
                          r # source_row => properties'[r] = properties[r]
                    /\ properties'[source_row].value # properties[source_row].value =>
                          /\ properties'[source_row].value = value
                          /\ Len(last'.pushed) = 1
                          /\ last'.pushed[1].index.row = source_row
                          /\ last'.pushed[1].old_value = properties[source_row].value
                          /\ last'.pushed[1].new_value = value
       /\ (Undo /\ index > 0 /\ command_list[index].kind = "property") =>
             properties' = [properties EXCEPT
                               ![command_list[index].index.row].value =
                                   command_list[index].old_value]
       /\ (Redo /\ index < Len(command_list)
                /\ command_list[index + 1].kind = "property") =>
             properties' = [properties EXCEPT
                               ![command_list[index + 1].index.row].value =
                                   command_list[index + 1].new_value]]_vars

\* An undo changed a record that the filter hides, the command having been
\* recorded while the record was shown at another row than its position.
HiddenRecordReplayWitness ==
    /\ last.op = "undo"
    /\ last.notified = 1
    /\ index < Len(command_list)
    /\ command_list[index + 1].kind = "property"
    /\ command_list[index + 1].index.row \notin AcceptedRows(World)
    /\ properties[command_list[index + 1].index.row].value =
          command_list[index + 1].old_value

----------------------------------------------------------------------------
(* Editing the vector rows *)

\* The record the open editor belongs to.
EditedRow == mapToSource(World, editor.row)

\* The delegate class of the open editor.
EditorDelegate == VecDelegate[editor.delegate]

\* C13: when setEditorData failed to parse the stored text, the commit of that
\* editor leaves every record's value, the command list and the cursor
\* unchanged and pushes no command.
FailedLoadAbortsEdit ==
    [][(CommitEditor /\ editor.failed) =>
          /\ UNCHANGED <<properties, command_list, index>>
          /\ last'.pushed = <<>>
          /\ last'.notified = 0]_vars

\* C14: the text a vector delegate commits is parsed by the same delegate
\* without a failure and gives the components that were committed.
CommittedVectorReparses ==
    [][CommitEditor =>
          LET committed == setModelData(EditorDelegate, editor.values)
              again == setEditorData(EditorDelegate, createEditor(EditorDelegate),
                                     committed)
          IN  /\ ~again.raised
              /\ again.values = editor.values]_vars

\* A float vector text in canonical form: every component written with one
\* decimal and no blanks.
Canonical(text) ==
    \A i \in DOMAIN text : text[i].decimals = 1 /\ text[i].pad = ""

\* C15: committing the editor of a float vector record whose stored text is
\* canonical, with the components as they were loaded, writes the stored text
\* again: the store and the stack are unchanged and no command is pushed.
FloatVectorFormatStable ==
    [][(/\ CommitEditor
        /\ EditorDelegate.parse = "float"
        /\ Canonical(properties[EditedRow].value)
        /\ ~editor.failed
        /\ editor.values = setEditorData(EditorDelegate, createEditor(EditorDelegate),
                                         properties[EditedRow].value).values) =>
          /\ setModelData(EditorDelegate, editor.values) = properties[EditedRow].value
          /\ UNCHANGED <<properties, command_list, index>>
          /\ last'.ret = FALSE
          /\ last'.notified = 0
          /\ last'.pushed = <<>>]_vars

\* The editor of the float vector record was committed with its components
\* untouched, after an edit of the record had been made and undone.
FloatVectorStableWitness ==
    /\ ~editor.open
    /\ last.op = "commitEditor"
    /\ last.ret = FALSE
    /\ editor.delegate = "Vec3fDelegate"
    /\ ~editor.failed
    /\ Canonical(properties[EditedRow].value)
    /\ editor.values = <<100, 200, 300>>
    /\ index = 0
    /\ Len(command_list) = 1
    /\ command_list[1].index.row = EditedRow

============================================================================
